---- MODULE Spec2Model ----
(***************************************************************************)
(* django-sitevars: per-site name/value variables (SiteVar rows) behind a  *)
(* read-through cache keyed "sitevars:{site_id}".                          *)
(*                                                                         *)
(* The model follows src/src/sitevars/models.py (SiteVarQueryset.get_value,*)
(* SiteVarQueryset.clear_cache, SiteVar.save, SiteVar.delete),             *)
(* src/src/sitevars/context_processors.py (inject_sitevars),               *)
(* src/src/sitevars/apps.py (SitevarsConfig.use_cache) and                 *)
(* src/src/sitevars/checks.py (the two system checks).                     *)
(*                                                                         *)
(* Framework behaviour the code relies on, modelled as Django defines it:  *)
(*  - transaction.on_commit(func) inside an atomic block appends func to   *)
(*    the connection's run_on_commit list; the list is run after a commit  *)
(*    and dropped by a rollback.  Outside an atomic block (autocommit) it  *)
(*    calls func() at once.                                                *)
(*  - a model's manager is a class attribute: reading it through an        *)
(*    instance (self.objects) raises AttributeError("Manager isn't         *)
(*    accessible via SiteVar instances").                                  *)
(*  - a database error inside an atomic block marks the transaction        *)
(*    needs_rollback: it can only be rolled back.                          *)
(*  - cache.set(key, value) without a timeout argument stores the entry   *)
(*    with the backend's default timeout (TIMEOUT of CACHES, 300 seconds   *)
(*    when not configured); timeout=None would store it without expiry.    *)
(*    Time is not modelled: an entry is observed before its timeout has    *)
(*    elapsed, so it stays until it is deleted or replaced.                *)
(* One database connection is modelled; db is what that connection reads.  *)
(***************************************************************************)
EXTENDS Integers, Sequences, FiniteSets, TLC

VARIABLES
    use_cache,        \* settings.SITEVARS_USE_CACHE as read by SitevarsConfig.use_cache
    cache,            \* cache backend: site id -> entry under key "sitevars:{site_id}"
    db,               \* SiteVar rows as the connection sees them (uncommitted writes included)
    committed,        \* SiteVar rows durably committed
    in_atomic_block,  \* the connection is inside transaction.atomic()
    needs_rollback,   \* the open transaction hit a database error
    run_on_commit,    \* callbacks registered by transaction.on_commit, in order
    last,             \* the last call made: what it was, how it ended, what it cost
    reader,           \* a concurrent request on a connection of its own, inside a read
    INSTALLED_APPS,   \* settings.INSTALLED_APPS
    TEMPLATES,        \* settings.TEMPLATES
    warnings          \* the system check run last and the list it returned

vars == <<use_cache, cache, db, committed, in_atomic_block, needs_rollback,
          run_on_commit, last, reader, INSTALLED_APPS, TEMPLATES, warnings>>

----------------------------------------------------------------------------
(* Bounds and input sets *)

\* Most callbacks (one per save/delete) registered inside one atomic block.
MaxOnCommit == 1

\* Site primary keys (django.contrib.sites rows).
Sites == {1, 2}

\* site_id = None: no site lookup found in the queryset.
NoSite == 0

\* Strings are sequences of characters so that int() parses them.
V25 == <<"2", "5">>
V50 == <<"5", "0">>
V10 == <<"1", "0">>
VLight == <<"l", "i", "g", "h", "t">>
VEmpty == <<>>

Names == {"paginate_by", "theme"}

Row(s, n, v) == [site |-> s, name |-> n, value |-> v]

\* The rows writers store: site 1 holds up to two names, site 2 the name
\* "paginate_by" under a value site 1 can hold too.
Writable ==
    {Row(1, "paginate_by", V25), Row(1, "paginate_by", V50),
     Row(1, "theme", VLight), Row(2, "paginate_by", V50)}

\* Python None against a str.
None == [some |-> FALSE, v |-> VEmpty]

Some(v) == [some |-> TRUE, v |-> v]

\* default arguments passed to get_value: None, "" (the declared default), "10".
Defaults == {None, Some(VEmpty), Some(V10)}

\* asa arguments passed to get_value: str (the declared default) and int.
Coercions == {"str", "int"}

\* The (default, asa) pairs callers pass: the declared defaults, the
\* docstring's default="10", asa=int, and default=None.
Arguments ==
    {[default |-> Some(VEmpty), asa |-> "str"],
     [default |-> Some(V10), asa |-> "int"],
     [default |-> None, asa |-> "int"]}

----------------------------------------------------------------------------
(* Return values *)

EmptyMap == [n \in {} |-> VEmpty]

RStr(s) == [kind |-> "ok", ty |-> "str", s |-> s, i |-> 0, m |-> EmptyMap]

RInt(i) == [kind |-> "ok", ty |-> "int", s |-> VEmpty, i |-> i, m |-> EmptyMap]

RNone == [kind |-> "ok", ty |-> "None", s |-> VEmpty, i |-> 0, m |-> EmptyMap]

RMap(m) == [kind |-> "ok", ty |-> "dict", s |-> VEmpty, i |-> 0, m |-> m]

Raise(exc) == [kind |-> "raise", ty |-> exc, s |-> VEmpty, i |-> 0, m |-> EmptyMap]

----------------------------------------------------------------------------
(* asa: str(x) and int(x) on a str *)

DigitChars == <<"0", "1", "2", "3", "4", "5", "6", "7", "8", "9">>

IsDigit(c) == \E k \in 1..10 : DigitChars[k] = c

DigitVal(c) == (CHOOSE k \in 1..10 : DigitChars[k] = c) - 1

RECURSIVE ParseDigits(_, _)
ParseDigits(s, acc) ==
    IF s = <<>> THEN acc
    ELSE ParseDigits(Tail(s), acc * 10 + DigitVal(Head(s)))

HasSign(s) == s # <<>> /\ Head(s) \in {"+", "-"}

Unsigned(s) == IF HasSign(s) THEN Tail(s) ELSE s

\* What int() accepts among the strings used here: an optional sign and digits.
IsIntLiteral(s) ==
    /\ Unsigned(s) # <<>>
    /\ \A k \in 1..Len(Unsigned(s)) : IsDigit(Unsigned(s)[k])

ParseInt(s) ==
    IF HasSign(s) /\ Head(s) = "-" THEN 0 - ParseDigits(Tail(s), 0)
    ELSE ParseDigits(Unsigned(s), 0)

\* asa(val) for a str val.
Coerce(asa, v) ==
    IF asa = "int"
    THEN IF IsIntLiteral(v) THEN RInt(ParseInt(v)) ELSE Raise("ValueError")
    ELSE RStr(v)

----------------------------------------------------------------------------
(* Querysets: the lookups in query.where.children, in order *)

SiteLookup(s) == [cls |-> "RelatedExact", field |-> "site", site |-> s, name |-> ""]

NameLookup(n) == [cls |-> "Exact", field |-> "name", site |-> NoSite, name |-> n]

\* SiteVar.objects
Objects == <<>>

\* SiteVar.objects.filter(site_id=s), site.vars
FilterSite(s) == <<SiteLookup(s)>>

\* qs.filter(name=n)
FilterName(qs, n) == Append(qs, NameLookup(n))

\* Querysets with a site lookup, and querysets without one.
SiteQuerySets == {FilterSite(s) : s \in Sites}

UnscopedQuerySets == {Objects, FilterName(Objects, "theme")}

QuerySets == SiteQuerySets \cup UnscopedQuerySets

Matches(r, lookup) ==
    IF lookup.field = "site" THEN r.site = lookup.site ELSE r.name = lookup.name

\* The rows a queryset selects.
Select(qs) == {r \in db : \A k \in 1..Len(qs) : Matches(r, qs[k])}

\* Mutant of SiteIdOf: falls back to settings.SITE_ID when no site lookup is
\* found.
RECURSIVE SiteIdOfDefault(_)
SiteIdOfDefault(children) ==
    IF children = <<>> THEN 1
    ELSE IF Head(children).cls # "RelatedExact" THEN SiteIdOfDefault(Tail(children))
    ELSE IF Head(children).field = "site" THEN Head(children).site
    ELSE SiteIdOfDefault(Tail(children))

\* The loop that finds the site id in the queryset's lookups.
RECURSIVE SiteIdOf(_)
SiteIdOf(children) ==
    IF children = <<>> THEN NoSite
    ELSE IF Head(children).cls # "RelatedExact" THEN SiteIdOf(Tail(children))
    ELSE IF Head(children).field = "site" THEN Head(children).site
    ELSE SiteIdOf(Tail(children))

\* {var.name: var.value for var in qs}
MappingOf(rs) ==
    [n \in {r.name : r \in rs} |-> (CHOOSE r \in rs : r.name = n).value]

----------------------------------------------------------------------------
(* Cache backend *)

\* The timeout of an entry stored by cache.set(key, value): the timeout
\* parameter is left at its default, DEFAULT_TIMEOUT, which stands for the
\* backend's configured TIMEOUT.
DEFAULT_TIMEOUT == "DEFAULT_TIMEOUT"

\* The timeout of an entry stored by cache.set(key, value, timeout=None): the
\* entry never expires.
NoExpiry == "None"

\* cache.get(key, None) returning None
NoEntry == [hit |-> FALSE, map |-> EmptyMap, timeout |-> ""]

Entry(m) == [hit |-> TRUE, map |-> m, timeout |-> DEFAULT_TIMEOUT]

\* cache.get(key, None)
CacheGet(c, s) == c[s]

\* cache.set(key, allvars)
CacheSet(c, s, m) == [c EXCEPT ![s] = Entry(m)]

\* cache.delete(key)
CacheDelete(c, s) == [c EXCEPT ![s] = NoEntry]

----------------------------------------------------------------------------
(* SiteVarQueryset.get_value: the whole call in the current state *)

\* val = allvars.get(name, default); return asa(val) if val is not None else val
FromMapping(allvars, name, default, asa) ==
    LET val == IF name \in DOMAIN allvars THEN Some(allvars[name]) ELSE default
    IN  IF val.some THEN Coerce(asa, val.v) ELSE RNone

\* Mutant of get_value_cached: "if not allvars" for "if allvars is None", so
\* that an empty cached mapping counts as a miss.
get_value_cached_falsy(qs, site_id, name, default, asa) ==
    LET entry == CacheGet(cache, site_id)
        miss == ~entry.hit \/ entry.map = EmptyMap
        allvars == IF miss THEN MappingOf(Select(qs)) ELSE entry.map
    IN  [ret |-> FromMapping(allvars, name, default, asa),
         cache |-> IF miss THEN CacheSet(cache, site_id, allvars) ELSE cache,
         q |-> IF miss THEN 1 ELSE 0,
         cget |-> 1,
         cset |-> IF miss THEN 1 ELSE 0]

\* Mutant of get_value_cached: get_value keeps its mapping under a key of
\* its own, which inject_sitevars never populates, so that it misses
\* whatever the key "sitevars:{site_id}" holds.
get_value_cached_own_key(qs, site_id, name, default, asa) ==
    [ret |-> FromMapping(MappingOf(Select(qs)), name, default, asa),
     cache |-> cache, q |-> 1, cget |-> 1, cset |-> 1]

\* if conf.use_cache: ... (the cached branch)
get_value_cached(qs, site_id, name, default, asa) ==
    LET entry == CacheGet(cache, site_id)
        miss == ~entry.hit
        allvars == IF miss THEN MappingOf(Select(qs)) ELSE entry.map
    IN  [ret |-> FromMapping(allvars, name, default, asa),
         cache |-> IF miss THEN CacheSet(cache, site_id, allvars) ELSE cache,
         q |-> IF miss THEN 1 ELSE 0,
         cget |-> 1,
         cset |-> IF miss THEN 1 ELSE 0]

\* Mutant of get_value_db: on DoesNotExist the default is returned as it
\* is, without asa.
get_value_db_raw_default(qs, name, default, asa) ==
    LET found == {r \in Select(qs) : r.name = name}
        ret == IF found = {}
               THEN (IF default.some THEN RStr(default.v) ELSE RNone)
               ELSE IF Cardinality(found) > 1 THEN Raise("MultipleObjectsReturned")
               ELSE Coerce(asa, (CHOOSE r \in found : TRUE).value)
    IN  [ret |-> ret, cache |-> cache, q |-> 1, cget |-> 0, cset |-> 0]

\* No cache, just query the DB: self.get(name=name)
get_value_db(qs, name, default, asa) ==
    LET found == {r \in Select(qs) : r.name = name}
        ret == IF found = {}
               THEN (IF default.some THEN Coerce(asa, default.v) ELSE RNone)
               ELSE IF Cardinality(found) > 1 THEN Raise("MultipleObjectsReturned")
               ELSE Coerce(asa, (CHOOSE r \in found : TRUE).value)
    IN  [ret |-> ret, cache |-> cache, q |-> 1, cget |-> 0, cset |-> 0]

\* Mutant of get_value: the cached branch taken without reading use_cache.
get_value_always_cached(qs, name, default, asa) ==
    LET site_id == SiteIdOf(qs)
    IN  IF site_id = NoSite
        THEN [ret |-> Raise("ValueError"), cache |-> cache,
              q |-> 0, cget |-> 0, cset |-> 0]
        ELSE get_value_cached(qs, site_id, name, default, asa)

get_value(qs, name, default, asa) ==
    LET site_id == SiteIdOf(qs)
    IN  IF site_id = NoSite
        THEN [ret |-> Raise("ValueError"), cache |-> cache,
              q |-> 0, cget |-> 0, cset |-> 0]
        ELSE IF use_cache
        THEN get_value_cached(qs, site_id, name, default, asa)
        ELSE get_value_db(qs, name, default, asa)

----------------------------------------------------------------------------
(* inject_sitevars: the whole call for a request resolved to site *)

\* Mutant of inject_sitevars: a miss is answered from the store without
\* cache.set.
inject_sitevars_no_set(site) ==
    LET qs == FilterSite(site)
        entry == CacheGet(cache, site)
    IN  IF ~use_cache
        THEN [ret |-> RMap(MappingOf(Select(qs))), cache |-> cache,
              q |-> 1, cget |-> 0, cset |-> 0]
        ELSE IF ~entry.hit
        THEN [ret |-> RMap(MappingOf(Select(qs))), cache |-> cache,
              q |-> 1, cget |-> 1, cset |-> 0]
        ELSE [ret |-> RMap(entry.map), cache |-> cache,
              q |-> 0, cget |-> 1, cset |-> 0]

\* Mutant of inject_sitevars: "if not allvars" for "if allvars is None", so
\* that an empty cached mapping counts as a miss.
inject_sitevars_falsy(site) ==
    LET qs == FilterSite(site)
        entry == CacheGet(cache, site)
        miss == ~entry.hit \/ entry.map = EmptyMap
        allvars == IF miss THEN MappingOf(Select(qs)) ELSE entry.map
    IN  IF ~use_cache
        THEN [ret |-> RMap(MappingOf(Select(qs))), cache |-> cache,
              q |-> 1, cget |-> 0, cset |-> 0]
        ELSE [ret |-> RMap(allvars),
              cache |-> IF miss THEN CacheSet(cache, site, allvars) ELSE cache,
              q |-> IF miss THEN 1 ELSE 0,
              cget |-> 1,
              cset |-> IF miss THEN 1 ELSE 0]

inject_sitevars(site) ==
    LET qs == FilterSite(site)
        entry == CacheGet(cache, site)
        miss == ~entry.hit
        allvars == IF miss THEN MappingOf(Select(qs)) ELSE entry.map
    IN  IF ~use_cache
        THEN [ret |-> RMap(MappingOf(Select(qs))), cache |-> cache,
              q |-> 1, cget |-> 0, cset |-> 0]
        ELSE [ret |-> RMap(allvars),
              cache |-> IF miss THEN CacheSet(cache, site, allvars) ELSE cache,
              q |-> IF miss THEN 1 ELSE 0,
              cget |-> 1,
              cset |-> IF miss THEN 1 ELSE 0]

----------------------------------------------------------------------------
(* SiteVarQueryset.clear_cache *)

\* Mutant of clear_cache: returns at once when caching is off.
clear_cache_guarded(c, site_id) ==
    IF ~use_cache THEN [cache |-> c, q |-> 0, cdel |-> 0]
    ELSE IF site_id # NoSite
    THEN [cache |-> CacheDelete(c, site_id), q |-> 0, cdel |-> 1]
    ELSE [cache |-> [s \in Sites |-> NoEntry], q |-> 1, cdel |-> Cardinality(Sites)]

\* Mutant of clear_cache: the site_id argument is ignored and every site's
\* key is deleted.
clear_cache_every_site(c, site_id) ==
    [cache |-> [s \in Sites |-> NoEntry], q |-> 1, cdel |-> Cardinality(Sites)]

\* Mutant of clear_cache: clear_cache() deletes only the key of
\* settings.SITE_ID instead of looping over the sites.
clear_cache_current_site(c, site_id) ==
    IF site_id # NoSite
    THEN [cache |-> CacheDelete(c, site_id), q |-> 0, cdel |-> 1]
    ELSE [cache |-> CacheDelete(c, 1), q |-> 0, cdel |-> 1]

\* clear_cache(site_id) for site_id in Sites; clear_cache() for NoSite.
clear_cache(c, site_id) ==
    IF site_id # NoSite
    THEN [cache |-> CacheDelete(c, site_id), q |-> 0, cdel |-> 1]
    ELSE [cache |-> [s \in Sites |-> NoEntry], q |-> 1, cdel |-> Cardinality(Sites)]

----------------------------------------------------------------------------
(* SiteVar.save / SiteVar.delete: the commit callback *)

\* lambda: self.objects.clear_cache(self.site.id), closed over the instance
Hook(inst) == [site |-> inst.site]

\* Calling the lambda: self.objects is read through an instance, which raises
\* AttributeError before clear_cache is reached.
RunHook(c, hook) ==
    [raised |-> TRUE, cache |-> c, cdel |-> 0]

\* The connection running its callbacks after a commit: in order, stopping at
\* the first that raises (the rest are dropped with the list).
RECURSIVE RunCommitHooks(_, _)
RunCommitHooks(c, hooks) ==
    IF hooks = <<>> THEN [raised |-> FALSE, cache |-> c, cdel |-> 0]
    ELSE LET o == RunHook(c, Head(hooks))
         IN  IF o.raised THEN o
             ELSE LET rest == RunCommitHooks(o.cache, Tail(hooks))
                  IN  [rest EXCEPT !.cdel = @ + o.cdel]

\* Mutant of OnCommit: the cache is cleared in save()/delete() itself instead
\* of in a callback deferred to the commit.
OnCommitEager(c, hooks, hook) ==
    LET o == clear_cache(c, hook.site)
    IN  [raised |-> FALSE, cache |-> o.cache, cdel |-> o.cdel, hooks |-> hooks]

\* transaction.on_commit(lambda: ...): deferred inside an atomic block, called
\* at once in autocommit.
OnCommit(c, hooks, hook) ==
    IF in_atomic_block
    THEN [raised |-> FALSE, cache |-> c, cdel |-> 0, hooks |-> Append(hooks, hook)]
    ELSE LET o == RunHook(c, hook)
         IN  [raised |-> o.raised, cache |-> o.cache, cdel |-> o.cdel, hooks |-> hooks]

----------------------------------------------------------------------------
(* SiteVar.save / SiteVar.delete: the whole call in the current state *)

\* unique_together = ("site", "name") as the database enforces it on a write
\* that leaves `new` in the table beside `others`.
UniqueViolation(others, new) ==
    \E r \in others : r.site = new.site /\ r.name = new.name

\* save() and delete(): register the callback, then super().save()/delete().
\* `old` holds the instance's row ({} for a new instance), `new` the row the
\* call leaves ({} for a delete), `inst` is the instance (self).
write(old, new, inst) ==
    LET oc == OnCommit(cache, run_on_commit, Hook(inst))
        clash == \E r \in new : UniqueViolation(db \ old, r)
        exc == IF oc.raised THEN "AttributeError"
               ELSE IF clash THEN "IntegrityError" ELSE ""
    IN  [exc |-> exc,
         cache |-> oc.cache,
         hooks |-> oc.hooks,
         db |-> IF exc = "" THEN (db \ old) \cup new ELSE db,
         q |-> IF oc.raised THEN 0 ELSE 1,
         cdel |-> oc.cdel]

\* SiteVar.objects.create(site_id=s, name=n, value=v)
create(s, n, v) == write({}, {Row(s, n, v)}, Row(s, n, v))

\* An instance loaded from row r, its fields set to (s, n, v), then save()
update(r, s, n, v) == write({r}, {Row(s, n, v)}, Row(s, n, v))

\* An instance loaded from row r, then delete()
delete(r) == write({r}, {}, r)

----------------------------------------------------------------------------
(* The call record *)

\* op: the call; site: the site it was made for (the instance's site for a
\* save or delete); old: the site of the row the instance was loaded from;
\* exc: the exception it raised (""  for none); q: store queries issued;
\* cget, cset, cdel: cache.get, cache.set and cache.delete calls issued.
Call(op, site, old, exc, q, cget, cset, cdel) ==
    [op |-> op, site |-> site, old |-> old, exc |-> exc, q |-> q, cget |-> cget,
     cset |-> cset, cdel |-> cdel]

WriteOps == {"create", "update", "delete"}

ReadOps == {"get_value", "inject_sitevars"}

ExcOf(ret) == IF ret.kind = "raise" THEN ret.ty ELSE ""

----------------------------------------------------------------------------
(* checks.py: the system checks over settings *)

\* Longest INSTALLED_APPS list and longest TEMPLATES list.
MaxApps == 3

MaxBackends == 2

\* App names that can appear in INSTALLED_APPS.
Apps == {"sitevars", "django.contrib.sites", "django.contrib.admin",
         "django.contrib.auth"}

\* INSTALLED_APPS lists: no app twice (Django refuses duplicate app labels).
AppLists ==
    {l \in UNION {[1..k -> Apps] : k \in 0..MaxApps} :
        \A i \in DOMAIN l, j \in DOMAIN l : l[i] = l[j] => i = j}

\* INSTALLED_APPS of the project settings, as far as the check reads it.
ProjectApps == <<"django.contrib.admin", "django.contrib.sites", "sitevars">>

RequestProcessor == "django.template.context_processors.request"

AuthProcessor == "django.contrib.auth.context_processors.auth"

\* A TEMPLATES entry: whether it has the key OPTIONS, whether OPTIONS has
\* the key context_processors, and the list under that key.
Backend(has_options, has_processors, processors) ==
    [has_options |-> has_options, has_processors |-> has_processors,
     context_processors |-> processors]

Backends ==
    {Backend(FALSE, FALSE, <<>>), Backend(TRUE, FALSE, <<>>),
     Backend(TRUE, TRUE, <<>>), Backend(TRUE, TRUE, <<AuthProcessor>>),
     Backend(TRUE, TRUE, <<AuthProcessor, RequestProcessor>>)}

BackendLists == UNION {[1..k -> Backends] : k \in 0..MaxBackends}

\* TEMPLATES of the project settings.
ProjectTemplates == <<Backend(TRUE, TRUE, <<AuthProcessor, RequestProcessor>>)>>

\* x in list
In(x, list) == \E k \in DOMAIN list : list[k] = x

\* list.index(x), counted from 1, for x in list
Index(list, x) == CHOOSE k \in DOMAIN list :
                      list[k] = x /\ \A j \in DOMAIN list : list[j] = x => k <= j

Warning(id) == [id |-> id, obj |-> "sitevars"]

\* Mutant of check_contrib_sites_comes_before_sitevars: the comparison of
\* the two indexes turned round.
check_contrib_sites_reversed ==
    IF In("sitevars", INSTALLED_APPS) /\ In("django.contrib.sites", INSTALLED_APPS)
    THEN IF Index(INSTALLED_APPS, "sitevars")
              > Index(INSTALLED_APPS, "django.contrib.sites")
         THEN <<Warning("sitevars.W001")>>
         ELSE <<>>
    ELSE <<>>

check_contrib_sites_comes_before_sitevars ==
    IF In("sitevars", INSTALLED_APPS) /\ In("django.contrib.sites", INSTALLED_APPS)
    THEN IF Index(INSTALLED_APPS, "sitevars")
              < Index(INSTALLED_APPS, "django.contrib.sites")
         THEN <<Warning("sitevars.W001")>>
         ELSE <<>>
    ELSE <<>>

\* backend.get("OPTIONS", {}).get("context_processors", [])
ContextProcessorsOf(backend) ==
    IF backend.has_options /\ backend.has_processors
    THEN backend.context_processors
    ELSE <<>>

\* Mutant of check_request_context_processor_is_installed: every backend
\* must list the request context processor.
check_request_every_backend ==
    IF \A k \in DOMAIN TEMPLATES :
           In(RequestProcessor, ContextProcessorsOf(TEMPLATES[k]))
    THEN <<>>
    ELSE <<Warning("sitevars.W002")>>

check_request_context_processor_is_installed ==
    LET using_context_processor ==
            \E k \in DOMAIN TEMPLATES :
                In(RequestProcessor, ContextProcessorsOf(TEMPLATES[k]))
    IN  IF ~using_context_processor
        THEN <<Warning("sitevars.W002")>>
        ELSE <<>>

\* No system check has run.
NoCheck == [check |-> "", result |-> <<>>]

\* The concurrent request is not inside a read.
Idle == [pc |-> "idle", site |-> NoSite, allvars |-> EmptyMap]

----------------------------------------------------------------------------
Init ==
    /\ use_cache \in BOOLEAN
    /\ cache = [s \in Sites |-> NoEntry]
    /\ db = {}
    /\ committed = {}
    /\ in_atomic_block = FALSE
    /\ needs_rollback = FALSE
    /\ run_on_commit = <<>>
    /\ last = Call("none", NoSite, NoSite, "", 0, 0, 0, 0)
    /\ reader = Idle
    /\ INSTALLED_APPS = ProjectApps
    /\ TEMPLATES = ProjectTemplates
    /\ warnings = NoCheck

\* qs.get_value(name, default, asa)
GetValue(qs, name, default, asa) ==
    /\ ~needs_rollback
    /\ LET o == get_value(qs, name, default, asa)
       IN  /\ cache' = o.cache
           /\ last' = Call("get_value", SiteIdOf(qs), NoSite, ExcOf(o.ret),
                           o.q, o.cget, o.cset, 0)
    /\ UNCHANGED <<INSTALLED_APPS, TEMPLATES, warnings, reader>>
    /\ UNCHANGED <<use_cache, db, committed, in_atomic_block, needs_rollback,
                   run_on_commit>>

\* inject_sitevars(request) with the request resolved to site
InjectSitevars(site) ==
    /\ ~needs_rollback
    /\ LET o == inject_sitevars(site)
       IN  /\ cache' = o.cache
           /\ last' = Call("inject_sitevars", site, NoSite, ExcOf(o.ret),
                           o.q, o.cget, o.cset, 0)
    /\ UNCHANGED <<INSTALLED_APPS, TEMPLATES, warnings, reader>>
    /\ UNCHANGED <<use_cache, db, committed, in_atomic_block, needs_rollback,
                   run_on_commit>>

\* SiteVar.objects.clear_cache(site_id) / SiteVar.objects.clear_cache()
ClearCache(site_id) ==
    /\ ~needs_rollback
    /\ LET o == clear_cache(cache, site_id)
       IN  /\ cache' = o.cache
           /\ last' = Call("clear_cache", site_id, NoSite, "", o.q, 0, 0, o.cdel)
    /\ UNCHANGED <<INSTALLED_APPS, TEMPLATES, warnings, reader>>
    /\ UNCHANGED <<use_cache, db, committed, in_atomic_block, needs_rollback,
                   run_on_commit>>

\* Applying the outcome o of a save() or delete() of an instance of `site`
\* loaded from a row of site `old`.
Write(op, site, old, o) ==
    /\ ~needs_rollback
    /\ Len(run_on_commit) < MaxOnCommit
    /\ cache' = o.cache
    /\ run_on_commit' = o.hooks
    /\ db' = o.db
    /\ committed' = IF in_atomic_block THEN committed ELSE o.db
    /\ needs_rollback' = (in_atomic_block /\ o.exc = "IntegrityError")
    /\ last' = Call(op, site, old, o.exc, o.q, 0, 0, o.cdel)
    /\ UNCHANGED <<INSTALLED_APPS, TEMPLATES, warnings, reader>>
    /\ UNCHANGED <<use_cache, in_atomic_block>>

Create(s, n, v) == Write("create", s, NoSite, create(s, n, v))

Update(r, s, n, v) == Write("update", s, r.site, update(r, s, n, v))

Delete(r) == Write("delete", r.site, r.site, delete(r))

\* Entering transaction.atomic()
Begin ==
    /\ ~in_atomic_block
    /\ in_atomic_block' = TRUE
    /\ last' = Call("begin", NoSite, NoSite, "", 0, 0, 0, 0)
    /\ UNCHANGED <<INSTALLED_APPS, TEMPLATES, warnings, reader>>
    /\ UNCHANGED <<use_cache, cache, db, committed, needs_rollback, run_on_commit>>

\* Leaving the atomic block without an exception: commit, then the callbacks.
Commit ==
    /\ in_atomic_block
    /\ ~needs_rollback
    /\ LET o == RunCommitHooks(cache, run_on_commit)
       IN  /\ cache' = o.cache
           /\ last' = Call("commit", NoSite, NoSite,
                           IF o.raised THEN "AttributeError" ELSE "",
                           0, 0, 0, o.cdel)
    /\ committed' = db
    /\ in_atomic_block' = FALSE
    /\ run_on_commit' = <<>>
    /\ UNCHANGED <<INSTALLED_APPS, TEMPLATES, warnings, reader>>
    /\ UNCHANGED <<use_cache, db, needs_rollback>>

\* Leaving the atomic block with an exception, or with needs_rollback set.
Rollback ==
    /\ in_atomic_block
    /\ db' = committed
    /\ in_atomic_block' = FALSE
    /\ needs_rollback' = FALSE
    /\ run_on_commit' = <<>>
    /\ last' = Call("rollback", NoSite, NoSite, "", 0, 0, 0, 0)
    /\ UNCHANGED <<INSTALLED_APPS, TEMPLATES, warnings, reader>>
    /\ UNCHANGED <<use_cache, cache, committed>>

\* The deployment changes SITEVARS_USE_CACHE (override_settings in the tests).
SetUseCache(b) ==
    /\ use_cache # b
    /\ ~in_atomic_block
    /\ use_cache' = b
    /\ last' = Call("settings", NoSite, NoSite, "", 0, 0, 0, 0)
    /\ UNCHANGED <<INSTALLED_APPS, TEMPLATES, warnings, reader>>
    /\ UNCHANGED <<cache, db, committed, in_atomic_block, needs_rollback,
                   run_on_commit>>

Next ==
    \/ \E qs \in SiteQuerySets, n \in Names, c \in Arguments :
           GetValue(qs, n, c.default, c.asa)
    \/ \E qs \in UnscopedQuerySets, c \in Arguments :
           GetValue(qs, "theme", c.default, c.asa)
    \/ \E s \in Sites : InjectSitevars(s)
    \/ \E s \in Sites \cup {NoSite} : ClearCache(s)
    \/ \E w \in Writable : Create(w.site, w.name, w.value)
    \/ \E r \in db, w \in Writable : Update(r, w.site, w.name, w.value)
    \/ \E r \in db : Delete(r)
    \/ Begin
    \/ Commit
    \/ Rollback

\* One deployment: SITEVARS_USE_CACHE keeps the value it starts with.
Spec == Init /\ [][Next]_vars

\* The setting may change between calls, so that a cache filled while caching
\* was on is still there once it is off.
NextSettings ==
    \/ Next
    \/ \E b \in BOOLEAN : SetUseCache(b)

SpecSettings == Init /\ [][NextSettings]_vars

----------------------------------------------------------------------------
(* A concurrent reader: the cached branch of get_value / inject_sitevars run *)
(* by another request, one statement at a time.  The request has a database  *)
(* connection of its own, in autocommit, so its query sees the committed     *)
(* rows.                                                                     *)

\* allvars = cache.get(key, None): a hit returns at once.
ReaderGet(s) ==
    /\ use_cache
    /\ reader.pc = "idle"
    /\ reader' = IF CacheGet(cache, s).hit
                 THEN [pc |-> "idle", site |-> s, allvars |-> CacheGet(cache, s).map]
                 ELSE [pc |-> "miss", site |-> s, allvars |-> EmptyMap]
    /\ UNCHANGED <<use_cache, cache, db, committed, in_atomic_block,
                   needs_rollback, run_on_commit, last, INSTALLED_APPS,
                   TEMPLATES, warnings>>

\* allvars = {var.name: var.value for var in qs}
ReaderQuery ==
    /\ reader.pc = "miss"
    /\ reader' = [pc |-> "queried", site |-> reader.site,
                  allvars |-> MappingOf({r \in committed : r.site = reader.site})]
    /\ UNCHANGED <<use_cache, cache, db, committed, in_atomic_block,
                   needs_rollback, run_on_commit, last, INSTALLED_APPS,
                   TEMPLATES, warnings>>

\* cache.set(key, allvars); return
ReaderSet ==
    /\ reader.pc = "queried"
    /\ cache' = CacheSet(cache, reader.site, reader.allvars)
    /\ reader' = [reader EXCEPT !.pc = "idle"]
    /\ UNCHANGED <<use_cache, db, committed, in_atomic_block, needs_rollback,
                   run_on_commit, last, INSTALLED_APPS, TEMPLATES, warnings>>

\* Writers on the modelled connection (save and delete inside atomic blocks
\* that commit or roll back) interleaved with the statements of the reader.
NextConcurrent ==
    \/ \E s \in Sites : ReaderGet(s)
    \/ ReaderQuery
    \/ ReaderSet
    \/ \E w \in Writable : Create(w.site, w.name, w.value)
    \/ \E r \in db, w \in Writable : Update(r, w.site, w.name, w.value)
    \/ \E r \in db : Delete(r)
    \/ Begin
    \/ Commit
    \/ Rollback

SpecConcurrent == Init /\ [][NextConcurrent]_vars

----------------------------------------------------------------------------
(* The system checks run against any settings *)

InitChecks ==
    /\ use_cache \in BOOLEAN
    /\ cache = [s \in Sites |-> NoEntry]
    /\ db = {}
    /\ committed = {}
    /\ in_atomic_block = FALSE
    /\ needs_rollback = FALSE
    /\ run_on_commit = <<>>
    /\ last = Call("none", NoSite, NoSite, "", 0, 0, 0, 0)
    /\ reader = Idle
    /\ INSTALLED_APPS \in AppLists
    /\ TEMPLATES \in BackendLists
    /\ warnings = NoCheck

\* Django runs check_contrib_sites_comes_before_sitevars
CheckContribSites ==
    /\ warnings' = [check |-> "check_contrib_sites_comes_before_sitevars",
                    result |-> check_contrib_sites_comes_before_sitevars]
    /\ UNCHANGED <<use_cache, cache, db, committed, in_atomic_block,
                   needs_rollback, run_on_commit, last, reader, INSTALLED_APPS,
                   TEMPLATES>>

\* Django runs check_request_context_processor_is_installed
CheckRequestContextProcessor ==
    /\ warnings' = [check |-> "check_request_context_processor_is_installed",
                    result |-> check_request_context_processor_is_installed]
    /\ UNCHANGED <<use_cache, cache, db, committed, in_atomic_block,
                   needs_rollback, run_on_commit, last, reader, INSTALLED_APPS,
                   TEMPLATES>>

NextChecks ==
    \/ CheckContribSites
    \/ CheckRequestContextProcessor

SpecChecks == InitChecks /\ [][NextChecks]_vars

----------------------------------------------------------------------------
(* get_value on querysets with a further filter *)

\* site.vars.filter(name=f): filtered by site and by name.
FilteredQuerySets == {FilterName(FilterSite(s), f) : s \in Sites, f \in Names}

\* The calls of Next, and site.vars.filter(name=f).get_value(f): get_value
\* called on a queryset that carries a name filter besides the site filter.
NextFiltered ==
    \/ Next
    \/ \E s \in Sites, f \in Names :
           GetValue(FilterName(FilterSite(s), f), f, Some(VEmpty), "str")

SpecFiltered == Init /\ [][NextFiltered]_vars

----------------------------------------------------------------------------
(* Properties *)

\* The name -> value mapping of site s in a set of rows.
StoreOf(rows, s) == MappingOf({r \in rows : r.site = s})

HasVar(rows, s, n) == \E r \in rows : r.site = s /\ r.name = n

\* Reading name n of site s straight from the rows the connection sees.
DirectRead(s, n, d, a) ==
    IF HasVar(db, s, n) THEN Coerce(a, StoreOf(db, s)[n])
    ELSE IF d.some THEN Coerce(a, d.v) ELSE RNone

\* C1: once a transaction that created Variable (s, n, v) has committed,
\* get_value on the queryset scoped to s returns v for n, with caching on or
\* off and whatever the cache held before the create.  Stated on the commit
\* step of a transaction whose last write was a successful create: every row
\* the transaction added is read back by the next get_value.
C1_CreatedValueIsRead ==
    [][(last.op = "create" /\ last.exc = "" /\ last'.op = "commit")
       => \A r \in db \ committed :
              (get_value(FilterSite(r.site), r.name, Some(VEmpty), "str").ret)'
                  = RStr(r.value)]_vars

\* C2: with caching on and the entry of site s populated, the commit of a
\* transaction that updated or deleted a Variable of s removes the entry of
\* s, so the next inject_sitevars for s issues one store query and returns the
\* committed mapping.
C2_CommitInvalidates ==
    [][(use_cache /\ last.op \in {"update", "delete"} /\ last.exc = ""
        /\ cache[last.site].hit /\ last'.op = "commit")
       => /\ ~cache'[last.site].hit
          /\ (inject_sitevars(last.site).q)' = 1
          /\ (inject_sitevars(last.site).ret)' = RMap(StoreOf(committed', last.site))]_vars

\* C3: a save or delete never invalidates before its transaction commits,
\* and a rollback never invalidates: every save, delete and rollback step
\* leaves the whole cache as it was, and inside an open atomic block no read
\* step changes or removes an entry that is populated.
C3_NoInvalidationBeforeCommit ==
    [][/\ (last'.op \in WriteOps \cup {"rollback"}) => cache' = cache
       /\ (in_atomic_block /\ last'.op \in ReadOps)
              => \A s \in Sites : cache[s].hit => cache'[s] = cache[s]]_vars

\* C3 witness: a write went through inside an open atomic block and the
\* populated entry of its site is still there.
C3_Witness ==
    /\ in_atomic_block
    /\ last.op \in WriteOps
    /\ last.exc = ""
    /\ db # committed
    /\ cache[last.site].hit

C5_NoCacheAccessWhenDisabled ==
    ~use_cache =>
        /\ \A qs \in QuerySets, n \in Names, d \in Defaults, a \in Coercions :
             LET o == get_value(qs, n, d, a)
             IN  /\ o.cget = 0 /\ o.cset = 0 /\ o.cache = cache
                 /\ qs \in SiteQuerySets =>
                      /\ o.q = 1
                      /\ o.ret = DirectRead(qs[1].site, n, d, a)
        /\ \A s \in Sites :
             inject_sitevars(s) = [ret |-> RMap(StoreOf(db, s)), cache |-> cache,
                                   q |-> 1, cget |-> 0, cset |-> 0]
        /\ last.op \in ReadOps =>
             /\ last.cget = 0 /\ last.cset = 0
             /\ last.site # NoSite => last.q = 1

\* C5 witness: with caching off and an entry still in the cache, get_value
\* for that site went to the store.
C5_Witness ==
    /\ ~use_cache
    /\ last.op = "get_value"
    /\ last.site # NoSite
    /\ last.q = 1
    /\ last.cget = 0
    /\ cache[last.site].hit
    /\ cache[last.site].map # StoreOf(db, last.site)

\* C6 as claimed: with caching off, clear_cache(site_id), clear_cache() and
\* the invalidation run by a commit do nothing to the cache backend: no
\* cache.delete is issued and every key stays as it is.
C6_ClearCacheIsNoOpWhenDisabled ==
    [][(~use_cache /\ last'.op \in {"clear_cache", "commit"})
         => (last'.cdel = 0 /\ cache' = cache)]_vars

\* C6 amended: clear_cache does not read the use-cache option.  With caching
\* off, clear_cache(site_id) issues one cache.delete, after which the key of
\* site_id is absent and every other key is as before; clear_cache() issues
\* one cache.delete per site and leaves no key of a site; neither does a
\* cache get or set.
C6_ClearCacheDeletesWhenDisabled ==
    ~use_cache =>
        /\ \A s \in Sites :
             LET o == clear_cache(cache, s)
             IN  /\ o.cdel = 1
                 /\ ~o.cache[s].hit
                 /\ \A other \in Sites \ {s} : o.cache[other] = cache[other]
        /\ LET o == clear_cache(cache, NoSite)
           IN  /\ o.cdel = Cardinality(Sites)
               /\ \A s \in Sites : ~o.cache[s].hit
        /\ last.op = "clear_cache" =>
             /\ last.cget = 0 /\ last.cset = 0
             /\ last.cdel = (IF last.site = NoSite THEN Cardinality(Sites) ELSE 1)
             /\ \A s \in Sites : (last.site \in {s, NoSite}) => ~cache[s].hit

\* C6 witness: with caching off, clear_cache(1) was called and removed the
\* entry of site 1 while the entry of site 2 is still there.
C6_Witness ==
    /\ ~use_cache
    /\ last.op = "clear_cache"
    /\ last.site = 1
    /\ last.cdel = 1
    /\ ~cache[1].hit
    /\ cache[2].hit

\* C7: creating a Variable (s, n, v2) when a Variable (s, n, v1) exists fails
\* with the uniqueness error and leaves the store as it is, and the store
\* never holds two Variables for one (site, name).
C7_DuplicateCreateIsUniquenessError ==
    /\ \A r1 \in db, r2 \in db :
           (r1.site = r2.site /\ r1.name = r2.name) => r1 = r2
    /\ \A w \in Writable :
           (~needs_rollback /\ HasVar(db, w.site, w.name)) =>
               /\ create(w.site, w.name, w.value).exc = "IntegrityError"
               /\ create(w.site, w.name, w.value).db = db

\* C8: sites are isolated.  A create, update or delete of a Variable that is
\* and stays under site A, a read for A (which may populate A's entry) and
\* clear_cache(A) leave the Variables and the cache entry of every other
\* site B as they were, so inject_sitevars for B returns what it returned
\* before; a commit leaves the entry of every site none of its callbacks is
\* for as it was.
C8_SitesAreIsolated ==
    [][/\ \A A \in Sites :
            (/\ last'.op \in WriteOps \cup ReadOps \cup {"clear_cache"}
             /\ last'.site = A
             /\ last'.old \in {NoSite, A})
            => \A B \in Sites \ {A} :
                 /\ {r \in db' : r.site = B} = {r \in db : r.site = B}
                 /\ {r \in committed' : r.site = B} = {r \in committed : r.site = B}
                 /\ cache'[B] = cache[B]
                 /\ (inject_sitevars(B).ret)' = inject_sitevars(B).ret
       /\ last'.op = "commit" =>
            \A B \in Sites :
                (\A k \in 1..Len(run_on_commit) : run_on_commit[k].site # B)
                    => cache'[B] = cache[B]]_vars

\* C8 witness: the same name holds different values under sites 1 and 2,
\* site 2's entry is populated, and site 1's entry was just invalidated.
C8_Witness ==
    /\ Row(1, "paginate_by", V25) \in db
    /\ Row(2, "paginate_by", V50) \in db
    /\ last.op = "clear_cache"
    /\ last.site = 1
    /\ ~cache[1].hit
    /\ cache[2].hit
    /\ cache[2].map = StoreOf(db, 2)

\* C9: get_value on a queryset without a site lookup raises ValueError for
\* every name, default and coercion, with caching on or off, whatever the
\* store and the cache hold, before any cache access or store query.
C9_UnscopedLookupRaises ==
    /\ \A qs \in UnscopedQuerySets, n \in Names, d \in Defaults, a \in Coercions :
         get_value(qs, n, d, a)
             = [ret |-> Raise("ValueError"), cache |-> cache,
                q |-> 0, cget |-> 0, cset |-> 0]
    /\ (last.op = "get_value" /\ last.site = NoSite) =>
         /\ last.exc = "ValueError"
         /\ last.q = 0 /\ last.cget = 0 /\ last.cset = 0

\* C9 witness: get_value on an unscoped queryset just raised ValueError with
\* rows in the store and an entry in the cache.
C9_Witness ==
    /\ last.op = "get_value"
    /\ last.site = NoSite
    /\ last.exc = "ValueError"
    /\ db # {}
    /\ \E s \in Sites : cache[s].hit /\ cache[s].map # EmptyMap

\* C10: for every site s and every name n with no Variable under s, with
\* caching on or off, get_value returns None when default is None and
\* coerce(default) otherwise.
C10_MissingNameGivesDefault ==
    \A s \in Sites, n \in Names, d \in Defaults, a \in Coercions :
        ~HasVar(db, s, n) =>
            get_value(FilterSite(s), n, d, a).ret
                = (IF d.some THEN Coerce(a, d.v) ELSE RNone)

\* The cache after a miss for site s stored mapping m with timeout t.
Populated(s, m, t) ==
    [cache EXCEPT ![s] = [hit |-> TRUE, map |-> m, timeout |-> t]]

\* C11 as claimed: with caching on, inject_sitevars for a site s without a
\* cache entry issues one store query, stores under the key of s, with no
\* expiry, the mapping of all Variables of s read from the store, and returns
\* that mapping.
C11_MissStoresWithoutExpiry ==
    \A s \in Sites :
        (use_cache /\ ~cache[s].hit) =>
            inject_sitevars(s)
                = [ret |-> RMap(StoreOf(db, s)),
                   cache |-> Populated(s, StoreOf(db, s), NoExpiry),
                   q |-> 1, cget |-> 1, cset |-> 1]

\* C11 amended: with caching on, inject_sitevars for a site s without a cache
\* entry issues one cache get, one store query and one cache set; it stores
\* under the key of s, with the backend's default timeout, the mapping of all
\* Variables of s read from the store, leaves every other key as it is, and
\* returns that mapping.  After such a call the entry of s equals the store's
\* mapping of s.
C11_MissStoresWithDefaultTimeout ==
    /\ \A s \in Sites :
         (use_cache /\ ~cache[s].hit) =>
             inject_sitevars(s)
                 = [ret |-> RMap(StoreOf(db, s)),
                    cache |-> Populated(s, StoreOf(db, s), DEFAULT_TIMEOUT),
                    q |-> 1, cget |-> 1, cset |-> 1]
    /\ (last.op = "inject_sitevars" /\ last.cset = 1) =>
         /\ last.q = 1 /\ last.cget = 1
         /\ cache[last.site]
                = [hit |-> TRUE, map |-> StoreOf(db, last.site),
                   timeout |-> DEFAULT_TIMEOUT]

\* C11 witness: inject_sitevars just missed and stored a non-empty mapping,
\* the store's mapping of its site, while the other site's entry is absent.
C11_Witness ==
    /\ use_cache
    /\ last.op = "inject_sitevars"
    /\ last.q = 1
    /\ last.cset = 1
    /\ cache[last.site].hit
    /\ cache[last.site].map # EmptyMap
    /\ cache[last.site].map = StoreOf(db, last.site)
    /\ \E other \in Sites \ {last.site} :
           ~cache[other].hit /\ StoreOf(db, other) # EmptyMap

\* C12: after clear_cache() no site has a cache entry, whatever the cache
\* held before and with caching on or off: the call issues one site query
\* and one cache.delete per site, and with caching on the next
\* inject_sitevars for any site is a miss that reads the store again.
C12_ClearAllLeavesNoEntry ==
    /\ clear_cache(cache, NoSite)
           = [cache |-> [s \in Sites |-> NoEntry], q |-> 1,
              cdel |-> Cardinality(Sites)]
    /\ (last.op = "clear_cache" /\ last.site = NoSite) =>
         /\ last.cdel = Cardinality(Sites)
         /\ \A s \in Sites :
              /\ cache[s] = NoEntry
              /\ use_cache =>
                   /\ inject_sitevars(s).q = 1
                   /\ inject_sitevars(s).cset = 1
                   /\ inject_sitevars(s).ret = RMap(StoreOf(db, s))

\* C12 witness: clear_cache() was just called with Variables under both
\* sites, and no site has an entry.
C12_Witness ==
    /\ use_cache
    /\ last.op = "clear_cache"
    /\ last.site = NoSite
    /\ last.cdel = Cardinality(Sites)
    /\ \A s \in Sites : ~cache[s].hit /\ StoreOf(db, s) # EmptyMap

\* C13: outside an open transaction, inject_sitevars for site s returns the
\* mapping of exactly the Variables of s, with caching on or off; it changes
\* no Variable, and the only change it makes to the cache is to populate the
\* entry of s with that mapping on a miss when caching is on.
C13_InjectReturnsSiteVariables ==
    ~in_atomic_block =>
        \A s \in Sites :
            LET o == inject_sitevars(s)
            IN  /\ o.ret = RMap(StoreOf(committed, s))
                /\ \A other \in Sites \ {s} : o.cache[other] = cache[other]
                /\ o.cache[s] # cache[s] =>
                     /\ use_cache
                     /\ ~cache[s].hit
                     /\ o.cache[s].map = StoreOf(committed, s)

\* C14: under every interleaving of a reader (cache get, store query, cache
\* set) with committing writers, once every operation has finished (the
\* reader has returned and no atomic block is open) the cache entry of each
\* site is absent or equal to the committed mapping of the site.
C14_QuiescentCacheIsConsistent ==
    (use_cache /\ reader.pc = "idle" /\ ~in_atomic_block) =>
        \A s \in Sites :
            ~cache[s].hit \/ cache[s].map = StoreOf(committed, s)

\* "sitevars" comes before "django.contrib.sites" in the list.
SitevarsBeforeSites(apps) ==
    \E i \in DOMAIN apps, j \in DOMAIN apps :
        i < j /\ apps[i] = "sitevars" /\ apps[j] = "django.contrib.sites"

\* C15: the app-ordering check returns exactly one warning, with id
\* sitevars.W001, if and only if "sitevars" and "django.contrib.sites" are
\* both in INSTALLED_APPS with "sitevars" first; in every other case (sites
\* first, either one absent) it returns the empty list.
C15_OrderingWarning ==
    /\ SitevarsBeforeSites(INSTALLED_APPS) =>
         /\ Len(check_contrib_sites_comes_before_sitevars) = 1
         /\ check_contrib_sites_comes_before_sitevars[1].id = "sitevars.W001"
    /\ ~SitevarsBeforeSites(INSTALLED_APPS) =>
         check_contrib_sites_comes_before_sitevars = <<>>
    /\ warnings.check = "check_contrib_sites_comes_before_sitevars" =>
         Len(warnings.result) = (IF SitevarsBeforeSites(INSTALLED_APPS) THEN 1 ELSE 0)

\* C15 witness: the check ran on a list with an unrelated app between
\* "sitevars" and "django.contrib.sites" and returned the warning.
C15_Witness ==
    /\ warnings.check = "check_contrib_sites_comes_before_sitevars"
    /\ Len(warnings.result) = 1
    /\ warnings.result[1].id = "sitevars.W001"
    /\ INSTALLED_APPS = <<"sitevars", "django.contrib.admin", "django.contrib.sites">>

\* Some backend lists the request context processor.
SomeBackendListsRequest(templates) ==
    \E k \in DOMAIN templates :
        /\ templates[k].has_options
        /\ templates[k].has_processors
        /\ \E p \in DOMAIN templates[k].context_processors :
               templates[k].context_processors[p] = RequestProcessor

\* C16: the request-context-processor check returns exactly one warning,
\* with id sitevars.W002, if and only if no backend of TEMPLATES lists
\* "django.template.context_processors.request" among its context
\* processors (backends without OPTIONS or without context_processors and
\* an empty TEMPLATES included); otherwise it returns the empty list.
C16_RequestProcessorWarning ==
    /\ ~SomeBackendListsRequest(TEMPLATES) =>
         /\ Len(check_request_context_processor_is_installed) = 1
         /\ check_request_context_processor_is_installed[1].id = "sitevars.W002"
    /\ SomeBackendListsRequest(TEMPLATES) =>
         check_request_context_processor_is_installed = <<>>
    /\ warnings.check = "check_request_context_processor_is_installed" =>
         Len(warnings.result) = (IF SomeBackendListsRequest(TEMPLATES) THEN 0 ELSE 1)

\* C16 witness: the check ran on two backends, the first without OPTIONS
\* and the second listing the request context processor, and returned no
\* warning.
C16_Witness ==
    /\ warnings.check = "check_request_context_processor_is_installed"
    /\ warnings.result = <<>>
    /\ Len(TEMPLATES) = 2
    /\ ~TEMPLATES[1].has_options
    /\ SomeBackendListsRequest(<<TEMPLATES[2]>>)

\* C17: the cached and the uncached branch of get_value agree.  For every
\* site s whose cache entry is absent or equal to the store's mapping of s,
\* and every name, default and coercion, the cached branch returns what the
\* uncached branch returns (the same value or the same coercion error): asa
\* of the stored string when the name exists, asa of the default when it
\* does not, and None, without asa, only when the name is absent and the
\* default is None.
C17_CachedEqualsUncached ==
    \A s \in Sites :
        (~cache[s].hit \/ cache[s].map = StoreOf(db, s)) =>
            \A n \in Names, d \in Defaults, a \in Coercions :
                LET cached == get_value_cached(FilterSite(s), s, n, d, a).ret
                    direct == get_value_db(FilterSite(s), n, d, a).ret
                IN  /\ cached = direct
                    /\ HasVar(db, s, n) => direct = Coerce(a, StoreOf(db, s)[n])
                    /\ (~HasVar(db, s, n) /\ d.some) => direct = Coerce(a, d.v)
                    /\ (~HasVar(db, s, n) /\ ~d.some) => direct = RNone

\* C17 witness: with caching on and the entry equal to the store's non-empty
\* mapping, get_value was served from the cache and asa raised ValueError
\* (int of a stored string that is not a number).
C17_Witness ==
    /\ use_cache
    /\ last.op = "get_value"
    /\ last.site # NoSite
    /\ last.q = 0
    /\ last.exc = "ValueError"
    /\ cache[last.site].hit
    /\ cache[last.site].map = StoreOf(db, last.site)
    /\ get_value_db(FilterSite(last.site), "theme", None, "int").ret
           = Raise("ValueError")

\* C18: with caching on and the entries of sites A and B populated, the
\* commit of a transaction whose last write was a save that moved a Variable
\* from A to B removes the entries of both sites, so the next inject_sitevars
\* for A and for B return the committed mappings.
C18_SiteChangeInvalidatesBoth ==
    [][(/\ use_cache
        /\ last.op = "update" /\ last.exc = ""
        /\ last.old # last.site
        /\ cache[last.old].hit /\ cache[last.site].hit
        /\ last'.op = "commit")
       => \A s \in {last.old, last.site} :
              /\ ~cache'[s].hit
              /\ (inject_sitevars(s).ret)' = RMap(StoreOf(committed', s))]_vars

\* C19: no uncommitted data stays cached.  When a read inside an open
\* transaction missed and populated the entry of site s after the
\* transaction wrote Variables of s, and the transaction then rolls back,
\* the entry of s holds none of the rolled-back rows.
C19_RollbackLeavesNoUncommittedData ==
    [][(/\ in_atomic_block
        /\ last.op \in ReadOps /\ last.cset = 1
        /\ last'.op = "rollback")
       => \A r \in db \ committed :
              r.site = last.site =>
                  ~(/\ cache'[r.site].hit
                    /\ r.name \in DOMAIN cache'[r.site].map
                    /\ cache'[r.site].map[r.name] = r.value)]_vars

\* C20: a site without Variables is cached like any other.  With caching
\* on, a miss for such a site stores the empty mapping under its key; and
\* while the key holds the empty mapping every inject_sitevars and get_value
\* for the site is a hit: one cache get, no store query, no cache set, the
\* cache left as it is, the empty mapping returned by inject_sitevars and
\* the default (None, or asa of the default) by get_value for every name.
C20_EmptyMappingIsAHit ==
    use_cache =>
        \A s \in Sites :
            /\ (~cache[s].hit /\ StoreOf(db, s) = EmptyMap) =>
                 /\ inject_sitevars(s).cache[s] = Entry(EmptyMap)
                 /\ \A n \in Names, d \in Defaults, a \in Coercions :
                        get_value(FilterSite(s), n, d, a).cache[s] = Entry(EmptyMap)
            /\ cache[s] = Entry(EmptyMap) =>
                 /\ inject_sitevars(s)
                        = [ret |-> RMap(EmptyMap), cache |-> cache,
                           q |-> 0, cget |-> 1, cset |-> 0]
                 /\ \A n \in Names, d \in Defaults, a \in Coercions :
                        get_value(FilterSite(s), n, d, a)
                            = [ret |-> IF d.some THEN Coerce(a, d.v) ELSE RNone,
                               cache |-> cache, q |-> 0, cget |-> 1, cset |-> 0]

\* C20 witness: inject_sitevars for a site without Variables was just
\* served from the empty mapping cached for it.
C20_Witness ==
    /\ use_cache
    /\ last.op = "inject_sitevars"
    /\ last.q = 0
    /\ last.cget = 1
    /\ last.cset = 0
    /\ cache[last.site] = Entry(EmptyMap)
    /\ StoreOf(db, last.site) = EmptyMap
    /\ db # {}

\* C21: whenever get_value has just populated the cache for site s on a
\* miss, the stored mapping holds every Variable of s, also when the
\* queryset carried a name filter besides the site filter.
C21_PopulationStoresEveryVariable ==
    (last.op = "get_value" /\ last.cset = 1) =>
        /\ cache[last.site].hit
        /\ cache[last.site].map = StoreOf(db, last.site)

\* Querysets scoped to site s: filtered by site alone, or by site and name.
QuerySetsOf(s) == {FilterSite(s)} \cup {FilterName(FilterSite(s), f) : f \in Names}

\* C22: get_value and inject_sitevars share the entry of a site.  With
\* caching on, while the entry of s is populated (by either of them) both
\* are served from it: inject_sitevars returns the stored mapping and
\* get_value answers from it, each with one cache get, no store query, no
\* cache set and the cache left as it is; and for every name n in the
\* mapping inject_sitevars returns, get_value(n) with asa=str returns the
\* same value.  A read that has just populated the entry leaves it
\* populated for the other.
C22_OneEntryPerSite ==
    use_cache =>
        /\ \A s \in Sites :
             cache[s].hit =>
                 /\ inject_sitevars(s)
                        = [ret |-> RMap(cache[s].map), cache |-> cache,
                           q |-> 0, cget |-> 1, cset |-> 0]
                 /\ \A qs \in QuerySetsOf(s), n \in Names, d \in Defaults,
                       a \in Coercions :
                        LET o == get_value(qs, n, d, a)
                        IN  /\ o.q = 0 /\ o.cget = 1 /\ o.cset = 0
                            /\ o.cache = cache
                 /\ \A n \in DOMAIN inject_sitevars(s).ret.m, d \in Defaults :
                        get_value(FilterSite(s), n, d, "str").ret
                            = RStr(inject_sitevars(s).ret.m[n])
        /\ (last.op \in ReadOps /\ last.site # NoSite) => cache[last.site].hit

\* C22 witness: get_value was just served, without a store query, from a
\* non-empty entry, and inject_sitevars returns that same mapping.
C22_Witness ==
    /\ use_cache
    /\ last.op = "get_value"
    /\ last.site # NoSite
    /\ last.q = 0
    /\ last.cget = 1
    /\ cache[last.site].hit
    /\ cache[last.site].map # EmptyMap
    /\ inject_sitevars(last.site).ret = RMap(cache[last.site].map)

====
